---- MODULE Spec2Model ----
(***************************************************************************)
(* Model of streamlit_app.py: the password gate, contract selection, the   *)
(* per-contract rights extraction loop, date coercion, the pairwise        *)
(* conflict scan, the KPI summary and the row highlighter.                 *)
(*                                                                         *)
(* Python strings are sequences of one-character strings, so that lower(), *)
(* strip(), str() and the substring test `a in b` are computed and not     *)
(* assumed.  A nullable field is a record [null, s]; str(None) is "None".  *)
(***************************************************************************)
EXTENDS Integers, Sequences, FiniteSets, TLC

VARIABLES
    authenticated,   \* st.session_state.authenticated
    pwd_input,       \* value of the password text_input
    run_auth,        \* history: value of authenticated when the current script run began
    pc,              \* position of the current script run
    input_mode,      \* the radio's value in this run
    uploaded_files,  \* the files handed to the uploader in this run
    contracts_data,  \* list of {"filename", "text"}; the text is opaque, only the filename is kept
    idx,             \* loop variable i of the extraction loop, 1-based
    rights_dfs,      \* list of one-row frames
    errors,          \* filenames for which st.error reported an extraction failure
    combined_df,     \* the concatenated frame with coerced dates
    conflicts,       \* the list of finding strings
    found,           \* history: the (i, j) of the scan at each conflicts.append
    metrics,         \* the four st.metric values, <<>> before they are computed
    styled           \* the label of each row of the styled frame, <<>> before it is computed

vars == <<authenticated, pwd_input, run_auth, pc, input_mode, uploaded_files,
          contracts_data, idx, rights_dfs, errors, combined_df, conflicts,
          found, metrics, styled>>

-----------------------------------------------------------------------------
(* Bounds *)

MaxBatch == 2
MaxDate == 2
MaxRows == 3

-----------------------------------------------------------------------------
(* Python values and string operations *)

Null == [null |-> TRUE, s |-> <<>>]
Text(s) == [null |-> FALSE, s |-> s]

\* str(x): str(None) is the four characters "None"
Str(v) == IF v.null THEN <<"N", "o", "n", "e">> ELSE v.s

UpperToLower ==
    [A |-> "a", B |-> "b", C |-> "c", D |-> "d", E |-> "e", F |-> "f", G |-> "g",
     H |-> "h", I |-> "i", J |-> "j", K |-> "k", L |-> "l", M |-> "m", N |-> "n",
     O |-> "o", P |-> "p", Q |-> "q", R |-> "r", S |-> "s", T |-> "t", U |-> "u",
     V |-> "v", W |-> "w", X |-> "x", Y |-> "y", Z |-> "z"]

LowerChar(c) == IF c \in DOMAIN UpperToLower THEN UpperToLower[c] ELSE c

\* str.lower()
Lower(s) == [k \in 1..Len(s) |-> LowerChar(s[k])]

RECURSIVE LStrip(_)
LStrip(s) == IF s # <<>> /\ Head(s) = " " THEN LStrip(Tail(s)) ELSE s

RECURSIVE RStrip(_)
RStrip(s) == IF s # <<>> /\ s[Len(s)] = " " THEN RStrip(SubSeq(s, 1, Len(s) - 1)) ELSE s

\* str.strip()
Strip(s) == RStrip(LStrip(s))

\* a in b, for two strings
IsSubstring(a, b) ==
    \E k \in 0..(Len(b) - Len(a)) : SubSeq(b, k + 1, k + Len(a)) = a

s_exclusive == <<"e", "x", "c", "l", "u", "s", "i", "v", "e">>
s_none == <<"n", "o", "n", "e">>
s_empty == <<>>

-----------------------------------------------------------------------------
(* Dates: pd.to_datetime(..., errors="coerce") *)

NaT == 0

DigitChars == <<"1", "2", "3", "4", "5", "6", "7", "8", "9">>

\* the text of day n of the modelled calendar, "2026-01-0n"
DateText(n) == <<"2", "0", "2", "6", "-", "0", "1", "-", "0", DigitChars[n]>>

\* a parseable date text becomes its day, anything else (None included) becomes NaT
ToDatetime(v) ==
    IF v.null THEN NaT
    ELSE IF \E n \in 1..Len(DigitChars) : v.s = DateText(n)
         THEN CHOOSE n \in 1..Len(DigitChars) : v.s = DateText(n)
         ELSE NaT

\* pd.notna
NotNa(d) == d # NaT

\* a variant of Le that reads a missing right-hand date as open-ended
Le_open_ended(a, b) == a # NaT /\ (b = NaT \/ a <= b)

\* Timestamp <= Timestamp; any comparison with NaT is False
Le(a, b) == a # NaT /\ b # NaT /\ a <= b

-----------------------------------------------------------------------------
(* Rows.  "Rights Type", "Music Clearance" and "Options" are only displayed *)
(* and are left out of the rows.                                            *)

required_keys ==
    {"Territory", "Exclusivity", "License Start Date", "License End Date", "Holdbacks"}

\* for key in required_keys: if key not in parsed: parsed[key] = None
FillRequired(parsed) ==
    [key \in required_keys |-> IF key \in DOMAIN parsed THEN parsed[key] ELSE Null]

\* df = pd.DataFrame([parsed]); df["Contract"] = contract["filename"]
MakeRow(parsed, filename) ==
    [col \in required_keys \cup {"Contract"} |->
        IF col = "Contract" THEN filename ELSE FillRequired(parsed)[col]]

\* pd.concat, then both date columns through pd.to_datetime
Concat(dfs) ==
    [k \in 1..Len(dfs) |->
        [dfs[k] EXCEPT !["License Start Date"] = ToDatetime(@),
                       !["License End Date"] = ToDatetime(@)]]

-----------------------------------------------------------------------------
(* Conflict detection *)

\* a variant of territory_conflict that compares without lower()
territory_conflict_cased(r1, r2) ==
    Str(r1["Territory"]) = Str(r2["Territory"])

territory_conflict(r1, r2) ==
    Lower(Str(r1["Territory"])) = Lower(Str(r2["Territory"]))

date_conflict(r1, r2) ==
    /\ NotNa(r1["License Start Date"])
    /\ NotNa(r2["License Start Date"])
    /\ Le(r1["License Start Date"], r2["License End Date"])
    /\ Le(r2["License Start Date"], r1["License End Date"])

exclusive_conflict(r1, r2) ==
    \/ Lower(Str(r1["Exclusivity"])) = s_exclusive
    \/ Lower(Str(r2["Exclusivity"])) = s_exclusive

\* f"{r1['Contract']} <-> {r2['Contract']} (Exclusive overlap in {r1['Territory']})"
\* the arrow is the single character "<->"
FindingText(r1, r2) ==
    r1["Contract"] \o <<" ", "<->", " ">> \o r2["Contract"]
    \o <<" ", "(", "E", "x", "c", "l", "u", "s", "i", "v", "e", " ",
         "o", "v", "e", "r", "l", "a", "p", " ", "i", "n", " ">>
    \o Str(r1["Territory"]) \o <<")">>

\* the nested loops: for i in range(n): for j in range(i+1, n), 1-based here
RECURSIVE ScanPairs(_, _, _)
ScanPairs(df, i, j) ==
    IF i > Len(df) THEN <<>>
    ELSE IF j > Len(df) THEN ScanPairs(df, i + 1, i + 2)
    ELSE (IF /\ territory_conflict(df[i], df[j])
             /\ date_conflict(df[i], df[j])
             /\ exclusive_conflict(df[i], df[j])
          THEN <<[i |-> i, j |-> j]>>
          ELSE <<>>) \o ScanPairs(df, i, j + 1)

FoundPairs(df) == ScanPairs(df, 1, 2)

FindingList(df, prs) ==
    [k \in 1..Len(prs) |-> FindingText(df[prs[k].i], df[prs[k].j])]

-----------------------------------------------------------------------------
(* KPI summary and highlighting *)

\* a variant of SummaryMetrics that counts holdbacks with the highlighter's filter
SummaryMetrics_trimmed(df, confl) ==
    << Len(df),
       Cardinality({k \in 1..Len(df) : Lower(Str(df[k]["Exclusivity"])) = s_exclusive}),
       Cardinality({k \in 1..Len(df) :
           Lower(Strip(Str(df[k]["Holdbacks"]))) \notin {s_none, s_empty}}),
       Len(confl) >>

\* the four st.metric values
SummaryMetrics(df, confl) ==
    << Len(df),
       Cardinality({k \in 1..Len(df) : Lower(Str(df[k]["Exclusivity"])) = s_exclusive}),
       Cardinality({k \in 1..Len(df) : Lower(Str(df[k]["Holdbacks"])) # s_none}),
       Len(confl) >>

holdback_flag(row) ==
    Lower(Strip(Str(row["Holdbacks"]))) \notin {s_none, s_empty}

conflict_flag(row, confl) ==
    \E k \in 1..Len(confl) : IsSubstring(row["Contract"], confl[k])

\* red, yellow and green are named by the legend's words
highlight(row, confl) ==
    IF conflict_flag(row, confl) THEN "CONFLICT"
    ELSE IF holdback_flag(row) THEN "HOLDBACK"
    ELSE "CLEAR"

Styled(df, confl) == [k \in 1..Len(df) |-> highlight(df[k], confl)]

-----------------------------------------------------------------------------
(* Inputs: the password typed, the files chosen, what the model returns *)

PASSWORD == "Lucky1813"

PasswordInputs == {"", "guess", PASSWORD}

\* the filenames of sample_contracts, in list order
sample_contracts ==
    << <<"E", "U", "_", "T", "V", "O", "D", "_", "E", "x", "c", "l", "u", "s", "i", "v", "e",
         ".", "p", "d", "f">>,
       <<"U", "S", "_", "S", "V", "O", "D", "_", "H", "o", "l", "d", "b", "a", "c", "k",
         ".", "d", "o", "c", "x">>,
       <<"M", "o", "v", "i", "e", "_", "A", "_", "R", "i", "g", "h", "t", "s",
         ".", "d", "o", "c", "x">>,
       <<"M", "o", "v", "i", "e", "_", "B", "_", "R", "i", "g", "h", "t", "s",
         ".", "d", "o", "c", "x">> >>

\* an uploaded file: its name, and whether PdfReader / Document can read it
UploadableFiles ==
    { [name |-> <<"a", ".", "p", "d", "f">>, readable |-> TRUE],
      [name |-> <<"b", ".", "d", "o", "c", "x">>, readable |-> TRUE],
      [name |-> <<"x", ".", "p", "d", "f">>, readable |-> FALSE] }

\* the sequences without repetition over S, of length 0..n
DistinctSeqs(S, n) ==
    UNION {{q \in [1..m -> S] : \A a, b \in 1..m : a # b => q[a] # q[b]} : m \in 0..n}

Range(q) == {q[k] : k \in 1..Len(q)}

T_EU == Text(<<"E", "U">>)
T_eu == Text(<<"e", "u">>)
T_US == Text(<<"U", "S">>)

X_Exclusive == Text(<<"E", "x", "c", "l", "u", "s", "i", "v", "e">>)
X_non_exclusive ==
    Text(<<"n", "o", "n", "-", "e", "x", "c", "l", "u", "s", "i", "v", "e">>)

H_None == Text(<<"N", "o", "n", "e">>)
H_empty == Text(<<>>)
H_padded_none == Text(<<" ", "n", "o", "n", "e">>)
H_EST == Text(<<"E", "S", "T">>)
H_padded_NaN == Text(<<" ", "N", "a", "N", " ">>)

D_TBD == Text(<<"T", "B", "D">>)

\* a JSON object with all the modelled keys
Response(t, x, s, e, h) ==
    [key \in required_keys |->
        CASE key = "Territory" -> t
          [] key = "Exclusivity" -> x
          [] key = "License Start Date" -> s
          [] key = "License End Date" -> e
          [] OTHER -> h]

\* the responses of the whole-application specification; the last one is a JSON
\* object that lacks three of the keys
AppResponses ==
    {Response(T_EU, x, Text(DateText(1)), Text(DateText(MaxDate)), h) :
        x \in {X_Exclusive, X_non_exclusive},
        h \in {Null, H_None, H_empty, H_padded_none, H_EST}}
    \cup {[key \in {"Territory", "Exclusivity"} |->
             IF key = "Territory" THEN T_EU ELSE X_Exclusive]}

-----------------------------------------------------------------------------
(* The script run *)

Init ==
    /\ authenticated = FALSE
    /\ pwd_input = ""
    /\ run_auth = FALSE
    /\ pc = "gate"
    /\ input_mode = "Upload Contracts"
    /\ uploaded_files = <<>>
    /\ contracts_data = <<>>
    /\ idx = 1
    /\ rights_dfs = <<>>
    /\ errors = <<>>
    /\ combined_df = <<>>
    /\ conflicts = <<>>
    /\ found = <<>>
    /\ metrics = <<>>
    /\ styled = <<>>

run_locals == <<input_mode, uploaded_files, contracts_data, idx, rights_dfs, errors,
                combined_df, conflicts, found, metrics, styled>>

\* a variant of Login whose st.stop() is reached only on a wrong password
Login_proceeds(p) ==
    /\ pc = "gate"
    /\ ~authenticated
    /\ pwd_input' = p
    /\ authenticated' = (p = PASSWORD)
    /\ pc' = (IF p = PASSWORD THEN "select" ELSE "stopped")
    /\ UNCHANGED <<run_auth, run_locals>>

\* the gate is shown and Login is pressed with p typed; the run stops either way
Login(p) ==
    /\ pc = "gate"
    /\ ~authenticated
    /\ pwd_input' = p
    /\ authenticated' = (p = PASSWORD)
    /\ pc' = "stopped"
    /\ UNCHANGED <<run_auth, run_locals>>

\* the gate is shown and Login is not pressed
GateShown(p) ==
    /\ pc = "gate"
    /\ ~authenticated
    /\ pwd_input' = p
    /\ pc' = "stopped"
    /\ UNCHANGED <<authenticated, run_auth, run_locals>>

GatePassed ==
    /\ pc = "gate"
    /\ authenticated
    /\ pc' = "select"
    /\ UNCHANGED <<authenticated, pwd_input, run_auth, run_locals>>

\* every uploaded file is read and appended
UploadContracts(files) ==
    /\ pc = "select"
    /\ files # <<>>
    /\ \A k \in 1..Len(files) : files[k].readable
    /\ input_mode' = "Upload Contracts"
    /\ uploaded_files' = files
    /\ contracts_data' = [k \in 1..Len(files) |-> files[k].name]
    /\ pc' = "extract"
    /\ UNCHANGED <<authenticated, pwd_input, run_auth, idx, rights_dfs, errors,
                   combined_df, conflicts, found, metrics, styled>>

\* PdfReader or Document raises on a file; nothing catches it and the run ends
UploadUnreadable(files) ==
    /\ pc = "select"
    /\ \E k \in 1..Len(files) : ~files[k].readable
    /\ input_mode' = "Upload Contracts"
    /\ uploaded_files' = files
    /\ LET bad == CHOOSE k \in 1..Len(files) :
                      /\ ~files[k].readable
                      /\ \A m \in 1..(k - 1) : files[m].readable
       IN  contracts_data' = [k \in 1..(bad - 1) |-> files[k].name]
    /\ pc' = "crashed"
    /\ UNCHANGED <<authenticated, pwd_input, run_auth, idx, rights_dfs, errors,
                   combined_df, conflicts, found, metrics, styled>>

SelectSamples(selected_files) ==
    /\ pc = "select"
    /\ selected_files # <<>>
    /\ input_mode' = "Use Sample Contracts"
    /\ uploaded_files' = <<>>
    /\ contracts_data' = selected_files
    /\ pc' = "extract"
    /\ UNCHANGED <<authenticated, pwd_input, run_auth, idx, rights_dfs, errors,
                   combined_df, conflicts, found, metrics, styled>>

\* if not contracts_data: st.stop()
NoContracts(mode) ==
    /\ pc = "select"
    /\ input_mode' = mode
    /\ uploaded_files' = <<>>
    /\ contracts_data' = <<>>
    /\ pc' = "stopped"
    /\ UNCHANGED <<authenticated, pwd_input, run_auth, idx, rights_dfs, errors,
                   combined_df, conflicts, found, metrics, styled>>

\* one iteration of the extraction loop whose try block succeeds
ExtractRights(parsed) ==
    /\ pc = "extract"
    /\ idx <= Len(contracts_data)
    /\ rights_dfs' = Append(rights_dfs, MakeRow(parsed, contracts_data[idx]))
    /\ idx' = idx + 1
    /\ UNCHANGED <<authenticated, pwd_input, run_auth, pc, input_mode, uploaded_files,
                   contracts_data, errors, combined_df, conflicts, found, metrics, styled>>

\* one iteration whose try block raises: st.error, and the loop goes on
ExtractFails ==
    /\ pc = "extract"
    /\ idx <= Len(contracts_data)
    /\ errors' = Append(errors, contracts_data[idx])
    /\ idx' = idx + 1
    /\ UNCHANGED <<authenticated, pwd_input, run_auth, pc, input_mode, uploaded_files,
                   contracts_data, rights_dfs, combined_df, conflicts, found, metrics,
                   styled>>

\* if not rights_dfs: st.stop()
NoRights ==
    /\ pc = "extract"
    /\ idx > Len(contracts_data)
    /\ rights_dfs = <<>>
    /\ pc' = "stopped"
    /\ UNCHANGED <<authenticated, pwd_input, run_auth, run_locals>>

Combine ==
    /\ pc = "extract"
    /\ idx > Len(contracts_data)
    /\ rights_dfs # <<>>
    /\ combined_df' = Concat(rights_dfs)
    /\ pc' = "detect"
    /\ UNCHANGED <<authenticated, pwd_input, run_auth, input_mode, uploaded_files,
                   contracts_data, idx, rights_dfs, errors, conflicts, found, metrics,
                   styled>>

Detect ==
    /\ pc = "detect"
    /\ found' = FoundPairs(combined_df)
    /\ conflicts' = FindingList(combined_df, FoundPairs(combined_df))
    /\ pc' = "summary"
    /\ UNCHANGED <<authenticated, pwd_input, run_auth, input_mode, uploaded_files,
                   contracts_data, idx, rights_dfs, errors, combined_df, metrics, styled>>

Summary ==
    /\ pc = "summary"
    /\ metrics' = SummaryMetrics(combined_df, conflicts)
    /\ pc' = "highlight"
    /\ UNCHANGED <<authenticated, pwd_input, run_auth, input_mode, uploaded_files,
                   contracts_data, idx, rights_dfs, errors, combined_df, conflicts, found,
                   styled>>

Highlight ==
    /\ pc = "highlight"
    /\ styled' = Styled(combined_df, conflicts)
    /\ pc' = "stories"
    /\ UNCHANGED <<authenticated, pwd_input, run_auth, input_mode, uploaded_files,
                   contracts_data, idx, rights_dfs, errors, combined_df, conflicts, found,
                   metrics>>

\* the exports and every user-story call succeed
UserStories ==
    /\ pc = "stories"
    /\ pc' = "done"
    /\ UNCHANGED <<authenticated, pwd_input, run_auth, run_locals>>

\* a user-story call raises; it is outside any try block
UserStoryFails ==
    /\ pc = "stories"
    /\ pc' = "crashed"
    /\ UNCHANGED <<authenticated, pwd_input, run_auth, run_locals>>

\* any interaction reruns the script from the top; only session_state survives
Rerun ==
    /\ pc \in {"stopped", "done", "crashed"}
    /\ pc' = "gate"
    /\ run_auth' = authenticated
    /\ input_mode' = "Upload Contracts"
    /\ uploaded_files' = <<>>
    /\ contracts_data' = <<>>
    /\ idx' = 1
    /\ rights_dfs' = <<>>
    /\ errors' = <<>>
    /\ combined_df' = <<>>
    /\ conflicts' = <<>>
    /\ found' = <<>>
    /\ metrics' = <<>>
    /\ styled' = <<>>
    /\ UNCHANGED <<authenticated, pwd_input>>

Next ==
    \/ \E p \in PasswordInputs : Login(p)
    \/ \E p \in PasswordInputs : GateShown(p)
    \/ GatePassed
    \/ \E files \in DistinctSeqs(UploadableFiles, MaxBatch) : UploadContracts(files)
    \/ \E files \in DistinctSeqs(UploadableFiles, MaxBatch) : UploadUnreadable(files)
    \/ \E sel \in DistinctSeqs(Range(sample_contracts), MaxBatch) : SelectSamples(sel)
    \/ \E mode \in {"Upload Contracts", "Use Sample Contracts"} : NoContracts(mode)
    \/ \E parsed \in AppResponses : ExtractRights(parsed)
    \/ ExtractFails
    \/ NoRights
    \/ Combine
    \/ Detect
    \/ Summary
    \/ Highlight
    \/ UserStories
    \/ UserStoryFails
    \/ Rerun

Spec == Init /\ [][Next]_vars

-----------------------------------------------------------------------------
(* The analysis of one batch, from the start of the extraction loop.  The  *)
(* session is authenticated and the contracts have been chosen; what the   *)
(* model returns for each contract is drawn from a bounded set.            *)

BatchSelected(names) ==
    /\ authenticated = TRUE
    /\ pwd_input = PASSWORD
    /\ run_auth = TRUE
    /\ pc = "extract"
    /\ input_mode = "Upload Contracts"
    /\ uploaded_files = [k \in 1..Len(names) |-> [name |-> names[k], readable |-> TRUE]]
    /\ contracts_data = names
    /\ idx = 1
    /\ rights_dfs = <<>>
    /\ errors = <<>>
    /\ combined_df = <<>>
    /\ conflicts = <<>>
    /\ found = <<>>
    /\ metrics = <<>>
    /\ styled = <<>>

\* Detection: present territories, both exclusivity values, every window over
\* the days, with an unparseable start or a missing end among them
DetectNames ==
    << <<"a", ".", "p", "d", "f">>, <<"b", ".", "d", "o", "c", "x">>,
       <<"c", ".", "p", "d", "f">>, <<"d", ".", "p", "d", "f">> >>

DetectResponses ==
    {Response(t, x, s, e, Null) :
        t \in {T_EU, T_eu, T_US},
        x \in {X_Exclusive, X_non_exclusive},
        s \in {D_TBD} \cup {Text(DateText(n)) : n \in 1..MaxDate},
        e \in {Null} \cup {Text(DateText(n)) : n \in 1..MaxDate}}

InitDetect == \E n \in 1..MaxBatch : BatchSelected(SubSeq(DetectNames, 1, n))

NextDetect ==
    \/ \E parsed \in DetectResponses : ExtractRights(parsed)
    \/ Combine
    \/ Detect

SpecDetect == InitDetect /\ [][NextDetect]_vars

\* Classification: unique contract ids one of which is part of another and one
\* of which is a territory's text; null and present territories; a record is
\* either without exclusivity and dates or exclusive on day 1
ClassifyNames == {<<"M">>, <<"M", "B">>, <<"e", "u">>}

ClassifyResponses ==
    {Response(t, c[1], c[2], c[2], h) :
        t \in {Null, T_EU, T_eu},
        c \in {<<Null, Null>>, <<X_Exclusive, Text(DateText(1))>>},
        h \in {Null, H_empty, H_padded_NaN, H_EST}}

InitClassify ==
    \E names \in DistinctSeqs(ClassifyNames, MaxRows) :
        names # <<>> /\ BatchSelected(names)

NextClassify ==
    \/ \E parsed \in ClassifyResponses : ExtractRights(parsed)
    \/ Combine
    \/ Detect
    \/ Summary
    \/ Highlight

SpecClassify == InitClassify /\ [][NextClassify]_vars

-----------------------------------------------------------------------------
(* Properties *)

Rows == 1..Len(combined_df)

\* the number of findings the scan appended for the pair (i, j)
FindingsFor(i, j) == Cardinality({k \in 1..Len(found) : found[k] = [i |-> i, j |-> j]})

InFinding(k) == \E f \in 1..Len(found) : found[f].i = k \/ found[f].j = k

IsExclusive(v) == ~v.null /\ Lower(v.s) = s_exclusive

AllPresent(r1, r2) ==
    /\ ~r1["Territory"].null
    /\ ~r2["Territory"].null
    /\ r1["License Start Date"] # NaT
    /\ r1["License End Date"] # NaT
    /\ r2["License Start Date"] # NaT
    /\ r2["License End Date"] # NaT

ShouldConflict(r1, r2) ==
    /\ Lower(r1["Territory"].s) = Lower(r2["Territory"].s)
    /\ r1["License Start Date"] <= r2["License End Date"]
    /\ r2["License Start Date"] <= r1["License End Date"]
    /\ (IsExclusive(r1["Exclusivity"]) \/ IsExclusive(r2["Exclusivity"]))

\* C1: after the scan, a pair i < j whose territories and four dates are present
\* has exactly one finding if the territories are equal ignoring case, the
\* windows overlap and one side is exclusive, and has no finding otherwise; every
\* finding is for a pair i < j and the finding list has one string per finding.
C1_ConflictIff ==
    pc = "summary" =>
        /\ Len(conflicts) = Len(found)
        /\ \A k \in 1..Len(found) :
               found[k].i \in Rows /\ found[k].j \in Rows /\ found[k].i < found[k].j
        /\ \A i \in Rows : \A j \in Rows :
               (i < j /\ AllPresent(combined_df[i], combined_df[j])) =>
                   FindingsFor(i, j) =
                       (IF ShouldConflict(combined_df[i], combined_df[j]) THEN 1 ELSE 0)

\* a finding between two present records whose territories differ in case only
C1_Witness ==
    /\ pc = "summary"
    /\ \E k \in 1..Len(found) :
           /\ AllPresent(combined_df[found[k].i], combined_df[found[k].j])
           /\ combined_df[found[k].i]["Territory"] # combined_df[found[k].j]["Territory"]

\* C2: no finding involves a record whose territory is null.
C2_NullTerritoryNeverMatches ==
    pc = "summary" =>
        \A k \in 1..Len(found) :
            /\ ~combined_df[found[k].i]["Territory"].null
            /\ ~combined_df[found[k].j]["Territory"].null

\* C3: every row has one of the three labels, and its label is CONFLICT exactly
\* when the row is one of the two records of some finding.
C3_ConflictIffInFinding ==
    pc = "stories" =>
        /\ Len(styled) = Len(combined_df)
        /\ \A k \in Rows :
               /\ styled[k] \in {"CONFLICT", "HOLDBACK", "CLEAR"}
               /\ (styled[k] = "CONFLICT") <=> InFinding(k)

Permute(df, perm) == [k \in 1..Len(df) |-> df[perm[k]]]

\* the findings as unordered pairs of contract ids
FindingIds(df, prs) ==
    {{df[prs[k].i]["Contract"], df[prs[k].j]["Contract"]} : k \in 1..Len(prs)}

\* the contract id to label mapping, as a set of pairs
LabelMap(df, labels) == {<<df[k]["Contract"], labels[k]>> : k \in 1..Len(df)}

\* C4: detection and classification of any permutation of the batch give the
\* same findings (as unordered pairs of ids) and the same id-to-label mapping.
C4_OrderIndependent ==
    pc = "stories" =>
        \A perm \in {q \in [Rows -> Rows] : \A a, b \in Rows : a # b => q[a] # q[b]} :
            LET df == Permute(combined_df, perm)
                prs == FoundPairs(df)
            IN  /\ FindingIds(df, prs) = FindingIds(combined_df, found)
                /\ LabelMap(df, Styled(df, FindingList(df, prs)))
                       = LabelMap(combined_df, styled)

\* the extracted text is one of the parseable date texts
Parseable(v) == ~v.null /\ \E n \in 1..Len(DigitChars) : v.s = DateText(n)

DatesParseable(row) ==
    Parseable(row["License Start Date"]) /\ Parseable(row["License End Date"])

\* C5: both records of every finding have a parseable license start and end:
\* a pair with a null or unparseable date has no finding.
C5_DatesRequired ==
    pc = "summary" =>
        \A k \in 1..Len(found) :
            DatesParseable(rights_dfs[found[k].i]) /\ DatesParseable(rights_dfs[found[k].j])

\* an exclusive pair in one territory with both starts parseable and an end
\* missing, and no finding for it
C5_Witness ==
    /\ pc = "summary"
    /\ \E i \in Rows : \E j \in Rows :
           /\ i < j
           /\ combined_df[i]["Territory"] = combined_df[j]["Territory"]
           /\ IsExclusive(combined_df[i]["Exclusivity"])
           /\ Parseable(rights_dfs[i]["License Start Date"])
           /\ Parseable(rights_dfs[j]["License Start Date"])
           /\ Parseable(rights_dfs[i]["License End Date"])
           /\ rights_dfs[j]["License End Date"].null
           /\ FindingsFor(i, j) = 0

s_nan == <<"n", "a", "n">>

\* the holdback is present: trimmed and lower-cased it is not "none", "" or "nan"
HoldbackPresent(v) == ~v.null /\ Lower(Strip(v.s)) \notin {s_none, s_empty, s_nan}

\* C6: a row in a finding is CONFLICT; a row in no finding is HOLDBACK when its
\* holdback is present and CLEAR when it is not, "nan" counting as not present.
C6_Precedence ==
    pc = "stories" =>
        \A k \in Rows :
            styled[k] = (IF InFinding(k) THEN "CONFLICT"
                         ELSE IF HoldbackPresent(combined_df[k]["Holdbacks"]) THEN "HOLDBACK"
                         ELSE "CLEAR")

AllNull(row) ==
    /\ row["Territory"].null
    /\ row["Exclusivity"].null
    /\ row["License Start Date"].null
    /\ row["License End Date"].null
    /\ row["Holdbacks"].null

\* C7: a record whose fields other than the contract id are all null is in no
\* finding and is labelled CLEAR.
C7_AllNullClear ==
    pc = "stories" =>
        \A k \in Rows :
            AllNull(rights_dfs[k]) => (~InFinding(k) /\ styled[k] = "CLEAR")

\* C8: the four metrics are the number of rows, the number of rows whose
\* exclusivity is "exclusive" ignoring case, the number of rows whose holdback
\* is given and, lower-cased and untrimmed, is not "none", and the number of
\* findings.
C8_Summary ==
    pc = "highlight" =>
        metrics =
            << Len(combined_df),
               Cardinality({k \in Rows : IsExclusive(combined_df[k]["Exclusivity"])}),
               Cardinality({k \in Rows :
                   /\ ~combined_df[k]["Holdbacks"].null
                   /\ Lower(combined_df[k]["Holdbacks"].s) # s_none}),
               Len(found) >>

\* a batch of an empty holdback and a padded " none", both counted
C8_Witness ==
    /\ pc = "highlight"
    /\ Len(combined_df) = 2
    /\ combined_df[1]["Holdbacks"] = H_empty
    /\ combined_df[2]["Holdbacks"] = H_padded_none
    /\ metrics[3] = 2

Contracts(df) == [k \in 1..Len(df) |-> df[k]["Contract"]]

RECURSIVE Without(_, _)
Without(q, S) ==
    IF q = <<>> THEN <<>>
    ELSE IF Head(q) \in S THEN Without(Tail(q), S)
    ELSE <<Head(q)>> \o Without(Tail(q), S)

\* C9: when a run has ended, every readable uploaded file was processed (it is
\* in the record table or its extraction failure was reported); the record
\* table holds the contracts whose extraction did not fail, in input order; and
\* a run in which some extraction succeeded goes on to the analysis.
C9_PartialFailure ==
    /\ pc \in {"stopped", "done", "crashed"} =>
           \A k \in 1..Len(uploaded_files) :
               uploaded_files[k].readable =>
                   uploaded_files[k].name \in Range(errors) \cup Range(Contracts(combined_df))
    /\ pc \in {"detect", "summary", "highlight", "stories", "done"} =>
           Contracts(combined_df) = Without(contracts_data, Range(errors))
    /\ (pc = "stopped" /\ contracts_data # <<>>) => rights_dfs = <<>>

\* C10, first part: a run that began unauthenticated is at the gate or stopped,
\* and has selected, extracted and analysed nothing.
GateHolds ==
    ~run_auth =>
        /\ pc \in {"gate", "stopped"}
        /\ contracts_data = <<>>
        /\ rights_dfs = <<>>
        /\ combined_df = <<>>
        /\ conflicts = <<>>
        /\ metrics = <<>>
        /\ styled = <<>>

\* C10: the gate holds in every state; the flag becomes true only in a step at
\* the gate that submits the configured password and stops the run; and a true
\* flag stays true.
C10_PasswordGate ==
    /\ []GateHolds
    /\ [][(~authenticated /\ authenticated') =>
              (pc = "gate" /\ pwd_input' = PASSWORD /\ pc' = "stopped")]_vars
    /\ [][authenticated => authenticated']_vars

\* the run in which the correct password was submitted has stopped at the gate
C10_Witness ==
    /\ authenticated
    /\ ~run_auth
    /\ pc = "stopped"
    /\ pwd_input = PASSWORD

====
